---------------------------- MODULE Spec2Model ----------------------------
(***************************************************************************)
(* shell_gpt: one command-line invocation after another (sgpt/app.py),     *)
(* over a durable session store (OpenAIClient.chat_cache) and a durable    *)
(* completion cache.  Text is a sequence of tokens, so that endswith,      *)
(* concatenation and substring tests are computed and not assumed.         *)
(***************************************************************************)
EXTENDS Integers, Sequences, FiniteSets, TLC

VARIABLES
    sessions,        \* chat id -> stored messages (<<>>: no such session)
    cache,           \* fingerprint -> completion text
    pc,              \* position of the running invocation
    req,             \* the invocation's arguments
    cfg,             \* which of OPENAI_API_HOST / OPENAI_API_KEY get_completion found set
    composer,        \* the call made to make_prompt: function and grammar flags
    collectedPrompt, \* main's collectedPrompt
    stream,          \* chunks the generator has still to yield
    response_text,   \* the gateway's accumulator
    full_completion, \* main's accumulator
    source,          \* "none", "cache" or "remote": who produced the stream
    lookedUp,        \* the cache was read for this invocation
    sessionRead,     \* the session store was read for this invocation
    executed,        \* how the completion was run: "none", "os.system", "powershell"
    sessions0,       \* the session store when the invocation started
    cache0,          \* the cache when the invocation started
    created,         \* chat id -> grammar its first message was composed with
    last_completed,  \* arguments of the latest earlier invocation that ran to completion
    nreq             \* invocations started

vars == <<sessions, cache, pc, req, cfg, composer, collectedPrompt, stream,
          response_text, full_completion, source, lookedUp, sessionRead,
          executed, sessions0, cache0, created, last_completed, nreq>>

----------------------------------------------------------------------------
(* Bounds and input sets *)

MaxRequests == 2

None == "None"
ChatIds == {"abc"}
ChatArgs == ChatIds \cup {None}

ShellSentinel == "###\nCommand:"
CodeSentinel == "###\nCode:"
ShellPreamble == "shell command only, no prose:"
CodePreamble == "code only, no prose:"
PlainPreamble == "answer:"
PowerShellPhrase == "only PowerShell commands"

Prompts == { <<"list files">> }
Temperatures == {1}
TopProbabilities == {1}
Responses == { <<"ls", " -la">>, <<"ok">> }

Model == "gpt-3.5-turbo"

----------------------------------------------------------------------------
(* Text helpers *)

EndsWith(s, suffix) ==
    /\ Len(s) >= Len(suffix)
    /\ SubSeq(s, Len(s) - Len(suffix) + 1, Len(s)) = suffix

Contains(s, token) == \E i \in 1..Len(s) : s[i] = token

----------------------------------------------------------------------------
(* make_prompt *)

initial(prompt, shell, code) ==
    IF shell THEN <<ShellPreamble>> \o prompt \o <<ShellSentinel>>
    ELSE IF code THEN <<CodePreamble>> \o prompt \o <<CodeSentinel>>
    ELSE <<PlainPreamble>> \o prompt

chat_mode(prompt, shell, code) ==
    IF shell THEN prompt \o <<ShellSentinel>>
    ELSE IF code THEN prompt \o <<CodeSentinel>>
    ELSE prompt

----------------------------------------------------------------------------
(* Session store *)

exists(chat) == sessions[chat] # <<>>

get_messages(store, chat) ==
    [i \in 1..Len(store[chat]) |->
        <<store[chat][i].role>> \o store[chat][i].content]


(* The first stored message decides the session's mode (app.py 108, 109);
   Python's chat_history[0] is index 1 here. *)
(* the mode read from the latest stored message instead of the first *)
is_shell_chat_of_last(chat_history) ==
    EndsWith(chat_history[Len(chat_history)], <<ShellSentinel>>)

is_shell_chat_of(chat_history) == EndsWith(chat_history[1], <<ShellSentinel>>)

is_code_chat_of(chat_history) == EndsWith(chat_history[1], <<CodeSentinel>>)

(* BadParameter without its second test: a code chat accepts --shell *)
BadParameter_shell_only(is_shell_chat, is_code_chat, shell, code) ==
    is_shell_chat /\ code

BadParameter(is_shell_chat, is_code_chat, shell, code) ==
    \/ is_shell_chat /\ code
    \/ is_code_chat /\ shell

(* chat_mode called with the flags of the command line *)
chat_mode_args_from_flags(is_shell_chat, is_code_chat, shell, code) ==
    [fn |-> "chat_mode", shell |-> shell, code |-> code]

(* The grammar flags main passes to make_prompt.chat_mode (app.py 119-121) *)
chat_mode_args(is_shell_chat, is_code_chat, shell, code) ==
    [fn |-> "chat_mode", shell |-> is_shell_chat, code |-> is_code_chat]

----------------------------------------------------------------------------
(* Arguments main hands to get_completion *)

(* the user message handed over twice *)
messages_of_twice(content) ==
    << [role |-> "user", content |-> content],
       [role |-> "user", content |-> content] >>

messages_of(content) == << [role |-> "user", content |-> content] >>

(* --no-cache passed on without the negation *)
caching_of_inverted(no_cache) == no_cache

(* --no-cache ignored *)
caching_of_always(no_cache) == TRUE

caching_of(no_cache) == ~no_cache

----------------------------------------------------------------------------
(* Completion cache and gateway *)

compute_fingerprint(messages, model, temperature, top_probability) ==
    <<messages, model, temperature, top_probability>>

history_of(store, chat) == IF chat = None THEN <<>> ELSE store[chat]

outbound(store) == history_of(store, req.chat) \o messages_of(collectedPrompt)

fingerprint(store) ==
    compute_fingerprint(outbound(store), Model, req.temperature, req.top_p)

(* The gateway's generator, after each step of the stream: the exchange is
   appended and the text cached once the stream is exhausted, and not before. *)
(* the exchange written at every chunk *)
chat_cache_write_eager(store, chat, messages, text, exhausted) ==
    IF chat # None
    THEN [store EXCEPT ![chat] =
             @ \o messages \o << [role |-> "assistant", content |-> text] >>]
    ELSE store

chat_cache_write(store, chat, messages, text, exhausted) ==
    IF exhausted /\ chat # None
    THEN [store EXCEPT ![chat] =
             @ \o messages \o << [role |-> "assistant", content |-> text] >>]
    ELSE store

cache_write(entries, enabled, from, key, text, exhausted) ==
    IF exhausted /\ enabled /\ from = "remote"
    THEN (key :> text) @@ entries
    ELSE entries

Grammar(c) == IF c.shell THEN "shell" ELSE IF c.code THEN "code" ELSE "plain"

----------------------------------------------------------------------------
(* What main does with the finished completion (app.py 139-144) *)

ShouldExecute(shell, code, demo) == (~code /\ shell) /\ demo = FALSE

Executor(prompt) ==
    IF Contains(prompt, PowerShellPhrase) THEN "powershell" ELSE "os.system"

----------------------------------------------------------------------------
(* State *)

NoReq == [prompt |-> <<>>, temperature |-> 1, top_p |-> 1, chat |-> None,
          shell |-> FALSE, code |-> FALSE, demo |-> FALSE, no_cache |-> FALSE]

NoComposer == [fn |-> "none", shell |-> FALSE, code |-> FALSE]

NoCfg == [host |-> TRUE, key |-> TRUE]

Terminal == {"listed", "shown", "missing_parameter", "bad_parameter",
             "config_error", "upstream_error", "abandoned", "done"}

Init ==
    /\ sessions = [c \in ChatIds |-> <<>>]
    /\ cache = <<>>
    /\ pc = "idle"
    /\ req = NoReq
    /\ cfg = NoCfg
    /\ composer = NoComposer
    /\ collectedPrompt = <<>>
    /\ stream = <<>>
    /\ response_text = <<>>
    /\ full_completion = <<>>
    /\ source = "none"
    /\ lookedUp = FALSE
    /\ sessionRead = FALSE
    /\ executed = "none"
    /\ sessions0 = sessions
    /\ cache0 = cache
    /\ created = [c \in ChatIds |-> "none"]
    /\ last_completed = NoReq
    /\ nreq = 0

(* A fresh process: nothing in memory survives from the previous invocation. *)
Fresh ==
    /\ pc \in Terminal \cup {"idle"}
    /\ nreq < MaxRequests
    /\ nreq' = nreq + 1
    /\ sessions0' = sessions
    /\ cache0' = cache
    /\ stream' = <<>>
    /\ response_text' = <<>>
    /\ full_completion' = <<>>
    /\ source' = "none"
    /\ lookedUp' = FALSE
    /\ executed' = "none"
    /\ cfg' = NoCfg
    /\ last_completed' = IF pc = "done" THEN [req EXCEPT !.demo = FALSE]
                         ELSE last_completed
    /\ UNCHANGED <<sessions, cache, created>>

(* main, --list-chat (app.py 93-95) *)
ListChat ==
    /\ Fresh
    /\ pc' = "listed"
    /\ sessionRead' = TRUE
    /\ req' = NoReq
    /\ composer' = NoComposer
    /\ collectedPrompt' = <<>>

(* main, --show-chat ID (app.py 96-98) *)
ShowChat ==
    /\ Fresh
    /\ \E show_chat \in ChatIds :
        /\ pc' = "shown"
        /\ sessionRead' = TRUE
    /\ req' = NoReq
    /\ composer' = NoComposer
    /\ collectedPrompt' = <<>>

(* main, no prompt and no --editor (app.py 100, 101) *)
MissingPrompt ==
    /\ Fresh
    /\ pc' = "missing_parameter"
    /\ sessionRead' = FALSE
    /\ req' = NoReq
    /\ composer' = NoComposer
    /\ collectedPrompt' = <<>>

(* main from the prompt to the composed prompt (app.py 91-123) *)
Main ==
    /\ Fresh
    /\ \E prompt \in Prompts \cup {<<>>}, editor \in BOOLEAN, edited \in Prompts,
          temperature \in Temperatures, top_probability \in TopProbabilities,
          chat \in ChatArgs, shell \in BOOLEAN, code \in BOOLEAN,
          demo \in BOOLEAN, no_cache \in BOOLEAN :
        LET raw == IF editor THEN edited ELSE prompt IN
        /\ prompt # <<>> \/ editor
        /\ req' = [prompt |-> raw, temperature |-> temperature,
                   top_p |-> top_probability, chat |-> chat, shell |-> shell,
                   code |-> code, demo |-> demo, no_cache |-> no_cache]
        /\ sessionRead' = (chat # None)
        /\ IF chat # None /\ exists(chat)
           THEN LET chat_history == get_messages(sessions, chat)
                    is_shell_chat == is_shell_chat_of(chat_history)
                    is_code_chat == is_code_chat_of(chat_history)
                IN IF BadParameter(is_shell_chat, is_code_chat, shell, code)
                   THEN /\ pc' = "bad_parameter"
                        /\ composer' = NoComposer
                        /\ collectedPrompt' = raw
                   ELSE LET args == chat_mode_args(is_shell_chat,
                                                   is_code_chat, shell, code)
                        IN /\ pc' = "composed"
                           /\ composer' = args
                           /\ collectedPrompt' =
                                  chat_mode(raw, args.shell, args.code)
           ELSE /\ pc' = "composed"
                /\ composer' = [fn |-> "initial", shell |-> shell, code |-> code]
                /\ collectedPrompt' = initial(raw, shell, code)

(* get_completion: the configuration is read, the client built and the
   generator returned; nothing of the generator has run yet (app.py 37-47) *)
GetCompletion ==
    /\ pc = "composed"
    /\ \E api_host \in BOOLEAN, api_key \in BOOLEAN :
        /\ cfg' = [host |-> api_host, key |-> api_key]
        /\ pc' = IF api_host /\ api_key THEN "iterating" ELSE "config_error"
    /\ UNCHANGED <<sessions, cache, req, composer, collectedPrompt, stream,
                   response_text, full_completion, source, lookedUp,
                   sessionRead, executed, sessions0, cache0, created, last_completed, nreq>>

(* The first next() of main's loop enters the gateway: history, fingerprint,
   cache lookup, and on a miss the call to the remote transport. *)
Open ==
    /\ pc = "iterating"
    /\ pc' = "streaming"
    /\ LET key == fingerprint(sessions) IN
       IF caching_of(req.no_cache)
       THEN /\ lookedUp' = TRUE
            /\ IF key \in DOMAIN cache
               THEN /\ source' = "cache"
                    /\ stream' = << cache[key] >>
               ELSE /\ source' = "remote"
                    /\ \E r \in Responses : stream' = r
       ELSE /\ lookedUp' = FALSE
            /\ source' = "remote"
            /\ \E r \in Responses : stream' = r
    /\ sessionRead' = (sessionRead \/ req.chat # None)
    /\ UNCHANGED <<sessions, cache, req, cfg, composer, collectedPrompt,
                   response_text, full_completion, executed, sessions0,
                   cache0, created, last_completed, nreq>>

(* One chunk: forwarded to main and accumulated on both sides (app.py 134-136) *)
Chunk ==
    /\ pc = "streaming"
    /\ stream # <<>>
    /\ LET word == Head(stream) IN
        /\ response_text' = response_text \o word
        /\ full_completion' = full_completion \o word
    /\ stream' = Tail(stream)
    /\ sessions' = chat_cache_write(sessions, req.chat,
                        messages_of(collectedPrompt), response_text', FALSE)
    /\ cache' = cache_write(cache, caching_of(req.no_cache), source,
                        fingerprint(sessions), response_text', FALSE)
    /\ UNCHANGED <<pc, req, cfg, composer, collectedPrompt,
                   source, lookedUp, sessionRead, executed, sessions0, cache0,
                   created, last_completed, nreq>>

(* The stream is exhausted: the gateway commits, main's loop ends and the
   completion is run if asked for (app.py 138-144) *)
Finish ==
    /\ pc = "streaming"
    /\ stream = <<>>
    /\ pc' = "done"
    /\ cache' = cache_write(cache, caching_of(req.no_cache), source,
                        fingerprint(sessions), response_text, TRUE)
    /\ sessions' = chat_cache_write(sessions, req.chat,
                        messages_of(collectedPrompt), response_text, TRUE)
    /\ created' = IF req.chat # None /\ sessions[req.chat] = <<>>
                  THEN [created EXCEPT ![req.chat] = Grammar(composer)]
                  ELSE created
    /\ executed' = IF ShouldExecute(req.shell, req.code, req.demo)
                   THEN Executor(collectedPrompt) ELSE "none"
    /\ UNCHANGED <<req, cfg, composer, collectedPrompt, stream, response_text,
                   full_completion, source, lookedUp, sessionRead, sessions0,
                   cache0, last_completed, nreq>>

(* The remote transport fails, at any point of the stream *)
UpstreamError ==
    /\ pc = "streaming"
    /\ source = "remote"
    /\ pc' = "upstream_error"
    /\ UNCHANGED <<sessions, cache, req, cfg, composer, collectedPrompt, stream,
                   response_text, full_completion, source, lookedUp,
                   sessionRead, executed, sessions0, cache0, created, last_completed, nreq>>

(* The consumer stops iterating (interrupt) before the stream's end *)
Abandon ==
    /\ pc = "streaming"
    /\ pc' = "abandoned"
    /\ UNCHANGED <<sessions, cache, req, cfg, composer, collectedPrompt, stream,
                   response_text, full_completion, source, lookedUp,
                   sessionRead, executed, sessions0, cache0, created, last_completed, nreq>>

Next ==
    \/ ListChat
    \/ ShowChat
    \/ MissingPrompt
    \/ Main
    \/ GetCompletion
    \/ Open
    \/ Chunk
    \/ Finish
    \/ UpstreamError
    \/ Abandon

Spec == Init /\ [][Next]_vars


----------------------------------------------------------------------------
(* Vocabulary of the properties *)

(* a prompt invocation is under way or has ended: req holds its arguments *)
Active == pc \in {"bad_parameter", "composed", "config_error", "iterating",
                  "streaming", "upstream_error", "abandoned", "done"}

(* the gateway has been entered *)
Opened == pc \in {"streaming", "upstream_error", "abandoned", "done"}

(* the invocation names a session that existed when it started *)
FollowUp0 == Active /\ req.chat # None /\ sessions0[req.chat] # <<>>

chat_history0 == get_messages(sessions0, req.chat)

SessionIsShell0 == EndsWith(chat_history0[1], <<ShellSentinel>>)

SessionIsCode0 == EndsWith(chat_history0[1], <<CodeSentinel>>)

ConflictRequested ==
    /\ FollowUp0
    /\ \/ SessionIsShell0 /\ req.code
       \/ SessionIsCode0 /\ req.shell

(* the invocation repeats the latest completed one (the demo flag aside) *)
Repeat == Opened /\ [req EXCEPT !.demo = FALSE] = last_completed

----------------------------------------------------------------------------
(* C1: a follow-up on a shell session with --code, or on a code session with
   --shell, ends in BadParameter with the session store and the cache as they
   were, no cache lookup, no prompt composed and no transport call. *)
C1_ModeConflictRejected ==
    ConflictRequested =>
        /\ pc = "bad_parameter"
        /\ sessions = sessions0
        /\ cache = cache0
        /\ ~lookedUp
        /\ source = "none"
        /\ composer = NoComposer

C1_Witness ==
    /\ ConflictRequested
    /\ SessionIsCode0 /\ req.shell /\ ~req.code
    /\ pc = "bad_parameter"

(* C2: the session store and the cache differ from their values at the start
   of the invocation only once the stream has been drained to its end; after
   an abandoned stream or a transport error both are as they were. *)
C2_CommitOnlyAfterDrain ==
    (sessions # sessions0 \/ cache # cache0) =>
        /\ pc = "done"
        /\ stream = <<>>
        /\ source # "none"

C2_Witness ==
    /\ pc = "abandoned"
    /\ source = "remote"
    /\ full_completion # <<>>
    /\ stream # <<>>
    /\ req.chat # None
    /\ ~req.no_cache
    /\ sessions = sessions0 /\ cache = cache0

(* C3 as stated: with caching enabled, an invocation identical to the latest
   completed one is served from the cache, with or without a session id. *)
C3_RepeatHitsCache ==
    (Repeat /\ ~req.no_cache) => (source = "cache")

(* C3 amended: with caching enabled and no session id, an invocation identical
   to the latest completed one is served from the cache and calls no
   transport. *)
C3_RepeatWithoutSessionHitsCache ==
    (Repeat /\ ~req.no_cache /\ req.chat = None) =>
        (lookedUp /\ source = "cache")

C3_Witness ==
    /\ Repeat /\ ~req.no_cache /\ req.chat = None
    /\ pc = "done"
    /\ source = "cache"
    /\ Len(full_completion) = 2

(* C4: a follow-up that is not rejected is composed by chat_mode with the
   flags inferred from the session's first message, whatever --shell and
   --code say, and the exchange it appends leaves the inferred mode as it
   was. *)
C4_FollowUpUsesSessionMode ==
    (FollowUp0 /\ pc # "bad_parameter") =>
        /\ composer = [fn |-> "chat_mode", shell |-> SessionIsShell0,
                       code |-> SessionIsCode0]
        /\ collectedPrompt =
               chat_mode(req.prompt, SessionIsShell0, SessionIsCode0)
        /\ LET now == get_messages(sessions, req.chat) IN
              /\ EndsWith(now[1], <<ShellSentinel>>) = SessionIsShell0
              /\ EndsWith(now[1], <<CodeSentinel>>) = SessionIsCode0

C4_Witness ==
    /\ FollowUp0
    /\ pc = "done"
    /\ req.shell /\ ~req.code
    /\ ~SessionIsShell0 /\ ~SessionIsCode0
    /\ composer.fn = "chat_mode" /\ ~composer.shell

(* C5: a session whose first message was composed with shell grammar is
   inferred shell (and not code) in every state, however many exchanges have
   been appended; likewise code and plain; and the inference on a session
   never differs from the inference at the start of the invocation. *)
C5_ModeInferenceStable ==
    \A id \in ChatIds :
        sessions[id] # <<>> =>
            LET h == get_messages(sessions, id) IN
            /\ created[id] # "none"
            /\ is_shell_chat_of(h) = (created[id] = "shell")
            /\ is_code_chat_of(h) = (created[id] = "code")
            /\ sessions0[id] # <<>> =>
                  /\ is_shell_chat_of(h)
                       = is_shell_chat_of(get_messages(sessions0, id))
                  /\ is_code_chat_of(h)
                       = is_code_chat_of(get_messages(sessions0, id))

C5_Witness ==
    /\ pc = "done"
    /\ req.chat = "abc"
    /\ created["abc"] = "shell"
    /\ Len(sessions["abc"]) >= 4
    /\ is_shell_chat_of(get_messages(sessions, "abc"))

(* C6: a completed invocation on a session id leaves the session as it was
   plus one user message and one assistant message holding the text main
   received, whether the text came from the cache or from the transport. *)
C6_OneExchangePerRequest ==
    (pc = "done" /\ req.chat # None) =>
        /\ sessions[req.chat] =
              sessions0[req.chat]
                \o << [role |-> "user", content |-> collectedPrompt],
                      [role |-> "assistant", content |-> full_completion] >>
        /\ \A id \in ChatIds \ {req.chat} : sessions[id] = sessions0[id]

C6_Witness ==
    /\ pc = "done"
    /\ req.chat # None
    /\ source = "cache"
    /\ Len(full_completion) = 2
    /\ Len(sessions[req.chat]) = Len(sessions0[req.chat]) + 2

(* C7: with --no-cache the cache is neither read nor written and the stream
   comes from the remote transport, also when the invocation repeats the one
   just completed. *)
C7_NoCacheAlwaysRemote ==
    (Active /\ req.no_cache) =>
        /\ ~lookedUp
        /\ cache = cache0
        /\ Opened => source = "remote"

C7_Witness ==
    /\ Repeat
    /\ req.no_cache
    /\ pc = "done"
    /\ source = "remote"

(* C8: an invocation that ends with a configuration error has not read the
   session store, composed a prompt or read the cache. *)
C8_ConfigFailsFast ==
    pc = "config_error" =>
        /\ ~sessionRead
        /\ composer.fn = "none"
        /\ ~lookedUp

(* C9: the initial composer is never called with both --shell and --code. *)
C9_ExclusiveFlags ==
    composer.fn = "initial" => ~(composer.shell /\ composer.code)

(* C10: a completion is run as a command only if the prompt was composed with
   shell grammar, --shell is set, --code and --demo are not, and the stream
   was drained. *)
C10_ExecuteOnlyShellGrammar ==
    executed # "none" =>
        /\ Grammar(composer) = "shell"
        /\ req.shell /\ ~req.code /\ ~req.demo
        /\ pc = "done" /\ stream = <<>>

=============================================================================
